---- MODULE Spec2Model ----
(***************************************************************************)
(* Verification model of the slo-generator / gmon tools.                   *)
(*                                                                         *)
(*   Spec          the report computation engine: compute() for one SLO    *)
(*                 config and one error budget policy, the steps' adapter  *)
(*                 calls completing in any order                           *)
(*   SpecCli       the batch loop of cli.main over several SLO configs     *)
(*   SpecCloudwatch  calls of CloudwatchBackend.good_bad_ratio             *)
(*   SpecSsm       calls of StackdriverServiceMonitoringBackend against    *)
(*                 the Service Monitoring API state of one project         *)
(*   SpecMeasure   measurement calls of both adapters: good_bad_ratio of   *)
(*                 CloudwatchBackend and retrieve_slo of Service Monitoring*)
(*   SpecDistributionCut  calls of the distribution_cut method             *)
(*   SpecCount     StackdriverServiceMonitoringBackend.count on a response *)
(*   SpecGmon      gmon's MetricsClient.delete_unused                      *)
(*                                                                         *)
(* Floating point values are modelled as exact rationals <<num, den>>.     *)
(***************************************************************************)
EXTENDS Integers, Sequences, FiniteSets, TLC

VARIABLES
    \* ---- the engine (compute) ----
    slo_config,            \* the SLO config under evaluation
    error_budget_policy,   \* sequence of error budget policy steps
    timestamp,             \* evaluation timestamp
    pc,                    \* "running" | "returned" | "raised"
    outcomes,              \* outcomes of the steps evaluated so far
    result,                \* what compute returned or raised
    out_of_order,          \* some step completed after a later step had
    \* ---- the CLI batch loop ----
    slo_config_paths,      \* the SLO config files of the batch, in order
    cli_pc,                \* "start" | "loop" | "done" | "raised" | "exited"
    cli_idx,               \* index of the next config of the loop
    attempted,             \* indices of the configs compute was called for
    policy_loads,          \* number of times the policy file was parsed
    passed_policies,       \* the policy value passed to each compute call
    \* ---- the adapters ----
    remote,                \* Service Monitoring API state: services, SLOs
    last                   \* the most recent adapter call and its outcome

engineVars == <<slo_config, error_budget_policy, timestamp, pc, outcomes, result,
                out_of_order>>
cliVars == <<slo_config_paths, cli_pc, cli_idx, attempted, policy_loads, passed_policies>>
engineRest == <<error_budget_policy, timestamp, pc, outcomes, result,
                out_of_order>>
adapterVars == <<remote, last>>
vars == <<slo_config, error_budget_policy, timestamp, pc, outcomes, result,
          out_of_order, slo_config_paths, cli_pc, cli_idx, attempted, policy_loads,
          passed_policies, remote, last>>

(***************************************************************************)
(* Bounds                                                                  *)
(***************************************************************************)
MaxSteps == 2      \* steps of an error budget policy
MaxCount == 2      \* largest event count a provider reports
MaxConfigs == 2    \* SLO configs of a batch run
MaxSeries == 3     \* timeseries in one query response given to count

(***************************************************************************)
(* Exact rational arithmetic: <<n, d>> with d > 0, in lowest terms.        *)
(* <<0, 0>> is the undefined result of a division by zero.                 *)
(***************************************************************************)
Abs(n) == IF n < 0 THEN -n ELSE n

RECURSIVE GCD(_, _)
GCD(a, b) == IF b = 0 THEN a ELSE GCD(b, a % b)

NaN == <<0, 0>>

Rat(n, d) ==
    IF d = 0 THEN NaN
    ELSE LET s == IF d < 0 THEN -1 ELSE 1
             g == GCD(Abs(n), Abs(d))
         IN  <<(s * n) \div g, (s * d) \div g>>

Zero == <<0, 1>>
One == <<1, 1>>

IsNaN(x) == x[2] = 0
RatSub(x, y) == IF IsNaN(x) \/ IsNaN(y) THEN NaN
                ELSE Rat(x[1] * y[2] - y[1] * x[2], x[2] * y[2])
RatDiv(x, y) == IF IsNaN(x) \/ IsNaN(y) THEN NaN
                ELSE Rat(x[1] * y[2], x[2] * y[1])
RatMul(x, y) == IF IsNaN(x) \/ IsNaN(y) THEN NaN
                ELSE Rat(x[1] * y[1], x[2] * y[2])
\* comparisons with an undefined operand are false, as for a float NaN
RatLeq(x, y) == ~IsNaN(x) /\ ~IsNaN(y) /\ x[1] * y[2] <= y[1] * x[2]
RatLt(x, y) == ~IsNaN(x) /\ ~IsNaN(y) /\ x[1] * y[2] < y[1] * x[2]

(***************************************************************************)
(* Error budget policy, SLO configs, provider timeseries                   *)
(***************************************************************************)
Thresholds == {One, <<2, 1>>}                 \* burn_rate_threshold > 0
Targets == {<<1, 2>>, <<9, 10>>, One}         \* slo_target in (0, 1]
SliValues == {Zero, <<1, 2>>, <<9, 10>>, One} \* scalar SLIs an adapter returns
Timestamps == {1600000000}

\* Step k of a policy: its name, its window (k hours) and its threshold.
PolicyStep(k, threshold) ==
    [name |-> k, window |-> 3600 * k, burn_rate_threshold |-> threshold]

\* Policies of 1..MaxSteps steps; the threshold does not grow with the window.
Policies ==
    UNION {{[k \in 1..n |-> PolicyStep(k, th[k])] :
              th \in {f \in [1..n -> Thresholds] :
                         \A i, j \in 1..n : i < j => RatLeq(f[j], f[i])}}
           : n \in 1..MaxSteps}

\* The SLI methods of the closed set.
Methods == {"good_bad_ratio", "distribution_cut", "basic", "window", "query_sli"}

EngineConfigs ==
    [service_name : {"svc"}, feature_name : {"feat"}, slo_name : {"slo"},
     method : {"good_bad_ratio", "query_sli", "foo"},
     measurement_complete : BOOLEAN,   \* required measurement fields present
     slo_target : Targets]

\* A timeseries of the Monitoring API: its event_type label and its points.
TimeSeries(event_type, points) == [event_type |-> event_type, points |-> points]

\* Responses to a query grouped by event_type (REDUCE_SUM, ALIGN_SUM): at most
\* one timeseries per event type, each with one point, in any order.
GroupedTimeseries ==
    {<<>>}
    \cup {<<TimeSeries(e, <<v>>)>> : e \in {"good", "bad"}, v \in 0..MaxCount}
    \cup {<<TimeSeries(e[1], <<g>>), TimeSeries(e[2], <<b>>)>> :
            e \in {<<"good", "bad">>, <<"bad", "good">>},
            g \in 0..MaxCount, b \in 0..MaxCount}

\* What the provider counted for an event type: the sum over the response.
RECURSIVE Traffic(_, _)
Traffic(timeseries, event_type) ==
    IF timeseries = <<>> THEN 0
    ELSE (IF Head(timeseries).event_type = event_type
          THEN Head(timeseries).points[1] ELSE 0)
         + Traffic(Tail(timeseries), event_type)

(***************************************************************************)
(* StackdriverServiceMonitoringBackend.count                               *)
(***************************************************************************)
\* The loop of count: acc is <<good_event_count, bad_event_count>>.
RECURSIVE CountLoop(_, _)
CountLoop(timeseries, acc) ==
    IF timeseries = <<>> THEN acc
    ELSE LET timeserie == Head(timeseries)
             value == timeserie.points[1]
         IN  CountLoop(Tail(timeseries),
                 IF timeserie.event_type = "bad" THEN <<acc[1], value>>
                 ELSE IF timeserie.event_type = "good" THEN <<value, acc[2]>>
                 ELSE acc)

\* Mutant: the counters start at a "no data" sentinel instead of 0.
count_NoDataSentinel(timeseries) == CountLoop(timeseries, <<-1, -1>>)

\* Mutant: a later timeseries of an event type does not replace an earlier one.
count_FirstWins(timeseries) ==
    CountLoop([i \in 1..Len(timeseries) |->
                  timeseries[Len(timeseries) + 1 - i]], <<0, 0>>)

count(timeseries) == CountLoop(timeseries, <<0, 0>>)

(***************************************************************************)
(* The report computation engine (compute)                                 *)
(***************************************************************************)
NoMeasurement == [kind |-> "none", good |-> 0, bad |-> 0, sli |-> NaN]
CountsMeasurement(pair) ==
    [kind |-> "counts", good |-> pair[1], bad |-> pair[2], sli |-> NaN]
SliMeasurement(v) == [kind |-> "sli_value", good |-> 0, bad |-> 0, sli |-> v]

\* What one adapter call gives the engine: a Measurement, or an error.
\* provided: what the provider had counted (good, bad) when it answered, and
\* empty: whether its answer held no timeseries at all.
AdapterReturn(measurement, provided, empty) ==
    [status |-> "ok", error |-> "none", measurement |-> measurement,
     provided |-> provided, empty |-> empty]
AdapterError(error) ==
    [status |-> "error", error |-> error, measurement |-> NoMeasurement,
     provided |-> <<0, 0>>, empty |-> FALSE]
NotCalled ==
    [status |-> "not_called", error |-> "none", measurement |-> NoMeasurement,
     provided |-> <<0, 0>>, empty |-> FALSE]

\* The outcomes of the adapter call of one step, for a config, when the
\* provider answers a counts query with one of `responses`.
AdapterResultsOver(config, responses) ==
    IF config.method \notin Methods THEN {NotCalled}
    ELSE IF ~config.measurement_complete
    THEN {AdapterError("ConfigurationError")}
    ELSE {AdapterError("BackendQueryError")} \cup
         (IF config.method = "good_bad_ratio"
          THEN {AdapterReturn(CountsMeasurement(count(ts)),
                              <<Traffic(ts, "good"), Traffic(ts, "bad")>>,
                              ts = <<>>)
                : ts \in responses}
          ELSE {AdapterReturn(SliMeasurement(v), <<0, 0>>, FALSE) : v \in SliValues})

AdapterResults(config) == AdapterResultsOver(config, GroupedTimeseries)

\* Step 3: the SLI value of a measurement.
Sli(measurement) ==
    IF measurement.kind = "sli_value" THEN measurement.sli
    ELSE IF measurement.good + measurement.bad = 0 THEN One
    ELSE Rat(measurement.good, measurement.good + measurement.bad)

\* Step 5: burn rate.
BurnRate(sli, slo_target) ==
    RatDiv(RatSub(One, sli), RatSub(One, slo_target))

\* Mutant: the remaining budget is clamped to zero.
ErrorBudgetRemaining_Clamped(sli, slo_target) ==
    LET r == RatSub(One, BurnRate(sli, slo_target))
    IN  IF RatLt(r, Zero) THEN Zero ELSE r

\* Step 4: error budget remaining.
ErrorBudgetRemaining(sli, slo_target) ==
    RatSub(One, BurnRate(sli, slo_target))

\* Mutant: the comparison is strict.
Alert_Strict(burn_rate, step) == RatLt(step.burn_rate_threshold, burn_rate)

\* Step 5: alert.
Alert(burn_rate, step) == RatLeq(step.burn_rate_threshold, burn_rate)

\* Step 7: the Report of one step.
BuildReport(config, step, ts, sli) ==
    [service_name |-> config.service_name,
     feature_name |-> config.feature_name,
     slo_name |-> config.slo_name,
     step_name |-> step.name,
     timestamp |-> ts,
     window |-> step.window,
     sli_measurement |-> sli,
     slo_target |-> config.slo_target,
     error_budget_remaining |-> ErrorBudgetRemaining(sli, config.slo_target),
     burn_rate |-> BurnRate(sli, config.slo_target),
     alert |-> Alert(BurnRate(sli, config.slo_target), step)]

NoReport == [none |-> TRUE]

StepReport(k, report, adapter_result) ==
    [step |-> k, status |-> "report", error |-> "none", report |-> report,
     adapter |-> adapter_result]
StepFailure(k, error, adapter_result) ==
    [step |-> k, status |-> "error", error |-> error, report |-> NoReport,
     adapter |-> adapter_result]

\* Mutant: a target of 1.0 is not rejected.
EvaluateStep_NoTargetCheck(config, policy, ts, k, adapter_result) ==
    IF config.method \notin Methods
    THEN StepFailure(k, "UnsupportedMethodError", adapter_result)
    ELSE IF adapter_result.status = "error"
    THEN StepFailure(k, adapter_result.error, adapter_result)
    ELSE StepReport(k, BuildReport(config, policy[k], ts,
                                   Sli(adapter_result.measurement)),
                    adapter_result)

\* Mutant: a failed adapter call still yields a Report, computed from the
\* empty measurement.
EvaluateStep_PartialReport(config, policy, ts, k, adapter_result) ==
    IF config.method \notin Methods
    THEN StepFailure(k, "UnsupportedMethodError", adapter_result)
    ELSE IF config.slo_target = One
    THEN StepFailure(k, "ConfigurationError", adapter_result)
    ELSE StepReport(k, BuildReport(config, policy[k], ts,
                        Sli(CountsMeasurement(<<0, 0>>))),
                    adapter_result)

\* Steps 1 to 7 for step k of the policy, given the adapter call's outcome.
EvaluateStep(config, policy, ts, k, adapter_result) ==
    IF config.method \notin Methods
    THEN StepFailure(k, "UnsupportedMethodError", adapter_result)
    ELSE IF adapter_result.status = "error"
    THEN StepFailure(k, adapter_result.error, adapter_result)
    ELSE IF config.slo_target = One
    THEN StepFailure(k, "ConfigurationError", adapter_result)
    ELSE StepReport(k, BuildReport(config, policy[k], ts,
                                   Sli(adapter_result.measurement)),
                    adapter_result)

\* Errors that abort the evaluation of the whole SLO config; a
\* BackendQueryError is scoped to its step.
FatalErrors == {"ConfigurationError", "UnsupportedMethodError"}

\* Mutant: outcomes are kept in completion order.
Collect_CompletionOrder(outs, outcome) == Append(outs, outcome)

\* Keep the outcomes in policy step order, whatever order they complete in.
Collect(outs, outcome) ==
    LET before == SelectSeq(outs, LAMBDA o : o.step < outcome.step)
        after == SelectSeq(outs, LAMBDA o : o.step > outcome.step)
    IN  before \o <<outcome>> \o after

\* What compute hands back: the Reports of the steps that produced one, in
\* order, and the failure of each failed step.
Assemble(outs) ==
    LET ok == SelectSeq(outs, LAMBDA o : o.status = "report")
        ko == SelectSeq(outs, LAMBDA o : o.status = "error")
    IN  [raised |-> "none",
         reports |-> [i \in 1..Len(ok) |-> ok[i].report],
         errors |-> [i \in 1..Len(ko) |->
                        [step |-> ko[i].step, error |-> ko[i].error]]]

Raised(outcome) ==
    [raised |-> outcome.error, reports |-> <<>>,
     errors |-> <<[step |-> outcome.step, error |-> outcome.error]>>]

NoResult == [raised |-> "none", reports |-> <<>>, errors |-> <<>>]

(***************************************************************************)
(* Values of the variables a specification does not use                    *)
(***************************************************************************)
NoConfig == [none |-> TRUE]
NoCall == [adapter |-> "none"]
NoRemote == [services |-> {}, slos |-> {}]

EngineIdle ==
    /\ slo_config = NoConfig
    /\ error_budget_policy = <<>>
    /\ timestamp = 0
    /\ pc = "idle"
    /\ outcomes = <<>>
    /\ result = NoResult
    /\ out_of_order = FALSE

CliIdle ==
    /\ slo_config_paths = <<>>
    /\ cli_pc = "idle"
    /\ cli_idx = 0
    /\ attempted = {}
    /\ policy_loads = 0
    /\ passed_policies = <<>>

AdaptersIdle ==
    /\ remote = NoRemote
    /\ last = NoCall

(***************************************************************************)
(* Spec: compute(slo_config, error_budget_policy, timestamp)               *)
(***************************************************************************)
Init ==
    /\ slo_config \in EngineConfigs
    /\ error_budget_policy \in Policies
    /\ timestamp \in Timestamps
    /\ pc = "running"
    /\ outcomes = <<>>
    /\ result = NoResult
    /\ out_of_order = FALSE
    /\ CliIdle
    /\ AdaptersIdle

StepsDone == {outcomes[i].step : i \in 1..Len(outcomes)}

\* The adapter call of step k completes and the step is evaluated. Steps
\* complete in any order.
CompleteStep(k) ==
    /\ pc = "running"
    /\ k \notin StepsDone
    /\ \E adapter_result \in AdapterResults(slo_config) :
         LET outcome == EvaluateStep(slo_config, error_budget_policy,
                                     timestamp, k, adapter_result)
         IN  /\ outcomes' = Collect(outcomes, outcome)
             /\ out_of_order' = (out_of_order \/ \E j \in StepsDone : j > k)
             /\ IF outcome.status = "error" /\ outcome.error \in FatalErrors
                THEN pc' = "raised" /\ result' = Raised(outcome)
                ELSE UNCHANGED <<pc, result>>
    /\ UNCHANGED <<slo_config, error_budget_policy, timestamp>>
    /\ UNCHANGED cliVars
    /\ UNCHANGED adapterVars

\* Every step is evaluated: compute returns.
Return ==
    /\ pc = "running"
    /\ StepsDone = DOMAIN error_budget_policy
    /\ pc' = "returned"
    /\ result' = Assemble(outcomes)
    /\ UNCHANGED <<slo_config, error_budget_policy, timestamp, outcomes,
                   out_of_order>>
    /\ UNCHANGED cliVars
    /\ UNCHANGED adapterVars

Next ==
    \/ \E k \in DOMAIN error_budget_policy : CompleteStep(k)
    \/ Return

Spec == Init /\ [][Next]_vars

(***************************************************************************)
(* Properties of the engine, checked under Spec                            *)
(***************************************************************************)
ReportsOf(outs) == {outs[i].report : i \in {j \in DOMAIN outs : outs[j].status = "report"}}

C3_ZeroTrafficIsCompliant ==
    \A i \in DOMAIN outcomes :
        LET o == outcomes[i]
        IN  (/\ o.adapter.status = "ok"
             /\ o.adapter.measurement.kind = "counts"
             /\ o.adapter.provided = <<0, 0>>
             /\ slo_config.slo_target # One)
            => /\ o.status = "report"
               /\ o.report.sli_measurement = One
               /\ o.report.burn_rate = Zero
               /\ o.report.alert = FALSE

\* C3 witness: the provider answered a step with no timeseries and the step
\* produced its Report, and another step was answered with zero counts.
C3_Witness ==
    /\ slo_config.slo_target # One
    /\ \E i, j \in DOMAIN outcomes :
           /\ outcomes[i].adapter.status = "ok" /\ outcomes[i].adapter.empty
           /\ outcomes[i].status = "report"
           /\ outcomes[j].adapter.status = "ok" /\ ~outcomes[j].adapter.empty
           /\ outcomes[j].adapter.measurement.kind = "counts"
           /\ outcomes[j].adapter.provided = <<0, 0>>

\* C4: with slo_target = 1, every step whose adapter call returned a
\* measurement fails with ConfigurationError, which compute raises; no Report
\* is produced, and no Report ever carries the result of a division by zero.
C4_TargetOneIsConfigurationError ==
    /\ slo_config.slo_target = One =>
           /\ result.reports = <<>>
           /\ \A i \in DOMAIN outcomes :
                  /\ outcomes[i].status = "error"
                  /\ outcomes[i].adapter.status = "ok" =>
                         /\ outcomes[i].error = "ConfigurationError"
                         /\ pc = "raised"
                         /\ result.raised = "ConfigurationError"
    /\ \A r \in ReportsOf(outcomes) :
           /\ ~IsNaN(r.burn_rate)
           /\ ~IsNaN(r.error_budget_remaining)

\* C4 witness: a config with slo_target = 1 whose adapter returned counts
\* with traffic, and compute raised.
C4_Witness ==
    /\ slo_config.slo_target = One
    /\ pc = "raised"
    /\ \E i \in DOMAIN outcomes :
           /\ outcomes[i].adapter.status = "ok"
           /\ outcomes[i].adapter.measurement.kind = "counts"
           /\ outcomes[i].adapter.measurement.bad > 0

\* C5: in every Report, burn_rate * (1 - slo_target) = 1 - sli and
\* error_budget_remaining = 1 - burn_rate; when sli < slo_target the
\* error_budget_remaining is strictly negative.
C5_BurnRateAndBudget ==
    \A r \in ReportsOf(outcomes) :
        LET s == r.sli_measurement
            t == r.slo_target
            b == r.burn_rate
            e == r.error_budget_remaining
        IN  /\ t[1] < t[2]
            /\ b[2] > 0 /\ e[2] > 0
            /\ b[1] * (t[2] - t[1]) * s[2] = b[2] * (s[2] - s[1]) * t[2]
            /\ e[1] * b[2] = (b[2] - b[1]) * e[2]
            /\ (s[1] * t[2] < t[1] * s[2]) => e[1] < 0

\* C5 witness: a Report whose sli is below its slo_target.
C5_Witness ==
    \E r \in ReportsOf(outcomes) :
        /\ RatLt(r.sli_measurement, r.slo_target)
        /\ r.error_budget_remaining[1] < 0

\* C6: in every Report, alert is True exactly when burn_rate is at least
\* the burn_rate_threshold of the Report's policy step; when sli equals
\* slo_target, burn_rate is 1 and alert is (1 >= threshold).
C6_AlertIsInclusive ==
    \A i \in DOMAIN outcomes :
        outcomes[i].status = "report" =>
            LET r == outcomes[i].report
                th == error_budget_policy[outcomes[i].step].burn_rate_threshold
                b == r.burn_rate
            IN  /\ r.alert = (b[1] * th[2] >= th[1] * b[2])
                /\ r.sli_measurement = r.slo_target =>
                       /\ b = One
                       /\ r.alert = (th[2] >= th[1])

\* C6 witness: a Report whose burn_rate equals the threshold of its step,
\* and one whose sli equals its slo_target.
C6_Witness ==
    \E i, j \in DOMAIN outcomes :
        /\ outcomes[i].status = "report"
        /\ outcomes[i].report.burn_rate =
               error_budget_policy[outcomes[i].step].burn_rate_threshold
        /\ outcomes[i].report.alert
        /\ outcomes[j].status = "report"
        /\ outcomes[j].report.sli_measurement = outcomes[j].report.slo_target

\* C7: a step whose adapter call failed has no Report, neither among the
\* outcomes nor in what compute returns; compute still returns the Report of
\* every step that produced one, and names the failed step and its error.
C7_FailedStepIsIsolated ==
    /\ \A i \in DOMAIN outcomes :
           outcomes[i].adapter.status = "error" => outcomes[i].status = "error"
    /\ pc = "returned" =>
           \A i \in DOMAIN outcomes :
               LET o == outcomes[i]
               IN  /\ o.status = "report" =>
                          \E n \in DOMAIN result.reports :
                              result.reports[n] = o.report
                   /\ o.adapter.status = "error" =>
                          /\ \A n \in DOMAIN result.reports :
                                 result.reports[n].step_name
                                     # error_budget_policy[o.step].name
                          /\ \E n \in DOMAIN result.errors :
                                 /\ result.errors[n].step = o.step
                                 /\ result.errors[n].error = o.adapter.error

\* C7 witness: compute returned after the adapter call of one step failed
\* and another step produced its Report.
C7_Witness ==
    /\ pc = "returned"
    /\ Len(result.reports) >= 1
    /\ \E i \in DOMAIN outcomes :
           /\ outcomes[i].adapter.status = "error"
           /\ outcomes[i].adapter.error = "BackendQueryError"

(***************************************************************************)
(* SpecCli: cli.main, the batch loop over the SLO configs                  *)
(***************************************************************************)
\* The backend classes utils.get_backend_cls can import.
BackendClasses == {"Cloudwatch", "Stackdriver", "StackdriverServiceMonitoring"}

\* utils.import_dynamic: the class, or sys.exit(1) when the import fails.
import_dynamic(class) ==
    IF class \in BackendClasses THEN [exit |-> FALSE, class |-> class]
    ELSE [exit |-> TRUE, class |-> "none"]

\* Mutant: a failed import is reported to the caller instead of exiting.
\* utils.get_backend_cls
get_backend_cls(backend) == import_dynamic(backend)

\* An SLO config file: the config it holds, and whether every environment
\* variable it references is set (utils.parse_config raises otherwise).
ValidConfig ==
    [service_name |-> "svc", feature_name |-> "feat", slo_name |-> "slo",
     method |-> "good_bad_ratio", measurement_complete |-> TRUE,
     slo_target |-> <<1, 2>>, class |-> "StackdriverServiceMonitoring"]

ConfigFile(config, env_set) == [config |-> config, env_set |-> env_set]

ConfigFiles ==
    {ConfigFile(ValidConfig, TRUE),
     ConfigFile(ValidConfig, FALSE),
     ConfigFile([ValidConfig EXCEPT !.class = "Foo"], TRUE),
     ConfigFile([ValidConfig EXCEPT !.method = "foo"], TRUE),
     ConfigFile([ValidConfig EXCEPT !.slo_target = One], TRUE)}

Batches == UNION {[1..n -> ConfigFiles] : n \in 0..MaxConfigs}

\* The provider answers the CLI runs are checked with.
CliResponses ==
    {<<>>, <<TimeSeries("good", <<1>>), TimeSeries("bad", <<1>>)>>}

\* compute, its steps evaluated in policy order: the Reports and step errors
\* it returns, or the error it raises.
RECURSIVE ComputeFrom(_, _, _, _, _, _)
ComputeFrom(config, policy, ts, adapter_results, k, outs) ==
    IF k > Len(policy) THEN Assemble(outs)
    ELSE LET outcome == EvaluateStep(config, policy, ts, k, adapter_results[k])
         IN  IF outcome.status = "error" /\ outcome.error \in FatalErrors
             THEN Raised(outcome)
             ELSE ComputeFrom(config, policy, ts, adapter_results, k + 1,
                              Collect(outs, outcome))

compute(config, policy, ts, adapter_results) ==
    ComputeFrom(config, policy, ts, adapter_results, 1, <<>>)

InitCli ==
    /\ slo_config_paths \in Batches
    /\ cli_pc = "start"
    /\ cli_idx = 1
    /\ attempted = {}
    /\ policy_loads = 0
    /\ passed_policies = <<>>
    /\ slo_config = NoConfig
    /\ error_budget_policy = <<>>
    /\ timestamp \in Timestamps
    /\ pc = "idle"
    /\ outcomes = <<>>
    /\ result = NoResult
    /\ out_of_order = FALSE
    /\ AdaptersIdle

\* Lines 38-54: load the error budget policy, list the SLO configs.
LoadPolicy ==
    /\ cli_pc = "start"
    /\ \E policy \in Policies :
         /\ error_budget_policy' = policy
         /\ policy_loads' = policy_loads + 1
    /\ cli_pc' = "loop"
    /\ UNCHANGED <<slo_config_paths, cli_idx, attempted, passed_policies>>
    /\ UNCHANGED <<slo_config, timestamp, pc, outcomes, result, out_of_order>>
    /\ UNCHANGED adapterVars

\* Line 42: parsing the policy file raises; main ends with the exception.
LoadPolicyFails ==
    /\ cli_pc = "start"
    /\ cli_pc' = "raised"
    /\ policy_loads' = policy_loads + 1
    /\ UNCHANGED <<slo_config_paths, cli_idx, attempted, passed_policies>>
    /\ UNCHANGED engineVars
    /\ UNCHANGED adapterVars

\* Mutant: the policy file is parsed again in every iteration of the loop.
LoopIteration_ReloadsPolicy ==
    /\ cli_pc = "loop"
    /\ cli_idx \in DOMAIN slo_config_paths
    /\ LET file == slo_config_paths[cli_idx]
       IN  IF ~file.env_set
           THEN /\ cli_pc' = "raised"
                /\ UNCHANGED <<cli_idx, attempted, passed_policies, slo_config,
                               result>>
           ELSE /\ slo_config' = file.config
                /\ attempted' = attempted \cup {cli_idx}
                /\ passed_policies' = Append(passed_policies, error_budget_policy)
                /\ IF get_backend_cls(file.config.class).exit
                   THEN /\ cli_pc' = "exited"
                        /\ UNCHANGED <<cli_idx, result>>
                   ELSE \E adapter_results \in
                            [DOMAIN error_budget_policy ->
                                 AdapterResultsOver(file.config, CliResponses)] :
                          /\ result' = compute(file.config, error_budget_policy,
                                               timestamp, adapter_results)
                          /\ IF result'.raised # "none"
                             THEN cli_pc' = "raised" /\ UNCHANGED cli_idx
                             ELSE cli_idx' = cli_idx + 1 /\ UNCHANGED cli_pc
    /\ error_budget_policy' \in Policies
    /\ policy_loads' = policy_loads + 1
    /\ UNCHANGED <<slo_config_paths, timestamp, pc, outcomes, out_of_order>>
    /\ UNCHANGED adapterVars

\* Lines 57-66: one iteration of the loop. Nothing in main catches what
\* parse_config or compute raise, and import_dynamic exits the process.
LoopIteration ==
    /\ cli_pc = "loop"
    /\ cli_idx \in DOMAIN slo_config_paths
    /\ LET file == slo_config_paths[cli_idx]
       IN  IF ~file.env_set
           THEN /\ cli_pc' = "raised"
                /\ UNCHANGED <<cli_idx, attempted, passed_policies, slo_config,
                               result>>
           ELSE /\ slo_config' = file.config
                /\ attempted' = attempted \cup {cli_idx}
                /\ passed_policies' = Append(passed_policies, error_budget_policy)
                /\ IF get_backend_cls(file.config.class).exit
                   THEN /\ cli_pc' = "exited"
                        /\ UNCHANGED <<cli_idx, result>>
                   ELSE \E adapter_results \in
                            [DOMAIN error_budget_policy ->
                                 AdapterResultsOver(file.config, CliResponses)] :
                          /\ result' = compute(file.config, error_budget_policy,
                                               timestamp, adapter_results)
                          /\ IF result'.raised # "none"
                             THEN cli_pc' = "raised" /\ UNCHANGED cli_idx
                             ELSE cli_idx' = cli_idx + 1 /\ UNCHANGED cli_pc
    /\ UNCHANGED <<slo_config_paths, policy_loads>>
    /\ UNCHANGED <<error_budget_policy, timestamp, pc, outcomes, out_of_order>>
    /\ UNCHANGED adapterVars

\* The loop is over: main returns.
Finish ==
    /\ cli_pc = "loop"
    /\ cli_idx > Len(slo_config_paths)
    /\ cli_pc' = "done"
    /\ UNCHANGED <<slo_config_paths, cli_idx, attempted, policy_loads,
                   passed_policies>>
    /\ UNCHANGED engineVars
    /\ UNCHANGED adapterVars

NextCli ==
    \/ LoadPolicy
    \/ LoadPolicyFails
    \/ LoopIteration
    \/ Finish

SpecCli == InitCli /\ [][NextCli]_vars

CliEnded == cli_pc \in {"done", "raised", "exited"}

\* C1: at the end of a batch run (the policy and every config file loaded,
\* no compute call raised), compute has been called for every config of the
\* batch, also when the backend class of some config did not resolve.
C1_EveryConfigAttempted ==
    (/\ CliEnded
     /\ policy_loads = 1 /\ error_budget_policy # <<>>
     /\ \A i \in DOMAIN slo_config_paths : slo_config_paths[i].env_set
     /\ result.raised = "none")
    => attempted = DOMAIN slo_config_paths

\* C16: in one run of the CLI the error budget policy is loaded at most
\* once, it has been loaded before any SLO config is evaluated, and every
\* compute call of the run was passed that same policy value.
C16_PolicyLoadedOnceAndShared ==
    /\ policy_loads <= 1
    /\ attempted # {} => policy_loads = 1
    /\ \A i \in DOMAIN passed_policies :
          passed_policies[i] = error_budget_policy

\* A finished run that evaluated two SLO configs.
C16_Witness ==
    /\ cli_pc = "done"
    /\ Len(passed_policies) = 2
    /\ policy_loads = 1

(***************************************************************************)
(* CloudwatchBackend                                                       *)
(***************************************************************************)
Windows == {3600 * k : k \in 1..MaxSteps}

\* The value under a measurement key: the key is missing, or it holds an
\* empty (falsy) value, or a metric descriptor.
AbsentKey ==
    [present |-> FALSE, truthy |-> FALSE, namespace |-> "", name |-> "",
     dimensions |-> <<>>]
EmptyValue ==
    [present |-> TRUE, truthy |-> FALSE, namespace |-> "", name |-> "",
     dimensions |-> <<>>]
Metric(name) ==
    [present |-> TRUE, truthy |-> TRUE, namespace |-> "AWS/ELB", name |-> name,
     dimensions |-> <<>>]

CloudwatchConfigs ==
    [service_name : {"svc"}, feature_name : {"feat"}, slo_name : {"slo"},
     slo_target : {<<9, 10>>},
     backend : [class : {"Cloudwatch"}, method : {"good_bad_ratio"},
                measurement :
                    [query_good : {AbsentKey, EmptyValue, Metric("Good")},
                     query_bad : {AbsentKey, EmptyValue, Metric("Bad")},
                     query_valid : {AbsentKey, EmptyValue, Metric("Valid")}]]]

\* What a call gives its caller.
Returns(value) == [kind |-> "return", error |-> "none", value |-> value]
Raises(error) == [kind |-> "raise", error |-> error, value |-> [type |-> "none"]]

\* Python values an adapter returns.
TupleValue(good, bad) == [type |-> "tuple", good |-> good, bad |-> bad]
DictValue(response) == [type |-> "dict", response |-> response]
NoneValue == [type |-> "None"]

\* The outcome of an adapter method and the provider calls it made.
Done(outcome, calls) == [outcome |-> outcome, calls |-> calls]

\* get_query_body: the metric's keys are read; an empty descriptor has none.
get_query_body(id, metric, stat, window) ==
    IF ~metric.truthy THEN Raises("KeyError")
    ELSE Returns([Id |-> id,
                  MetricStat |-> [Metric |-> [Namespace |-> metric.namespace,
                                              MetricName |-> metric.name,
                                              Dimensions |-> metric.dimensions],
                                  Period |-> window, Stat |-> stat,
                                  Unit |-> "Count"],
                  ReturnData |-> FALSE])

json_ratio(expression) ==
    [Id |-> "sli_value", Expression |-> expression, Label |-> "SLI"]

\* The answers of CloudWatch to get_metric_data: an error, or a response
\* holding the values of the expression that returns data, sli_value.
CloudwatchAnswers ==
    {[raises |-> TRUE, response |-> [MetricDataResults |-> <<>>]]} \cup
    {[raises |-> FALSE,
      response |-> [MetricDataResults |->
                       <<[Id |-> "sli_value", Label |-> "SLI", Values |-> vs]>>]]
     : vs \in {<<>>} \cup {<<v>> : v \in SliValues}}

\* Mutant: a failed get_metric_data is sent a second time before raising.
cloudwatch_query_Retry(ts, window, query, answer) ==
    LET call == [api |-> "get_metric_data", MetricDataQueries |-> query,
                 StartTime |-> ts - window, EndTime |-> ts,
                 MaxDatapoints |-> 1000]
    IN  IF answer.raises THEN Done(Raises("ClientError"), <<call, call>>)
        ELSE Done(Returns(DictValue(answer.response)), <<call>>)

\* client.get_metric_data(...) and what good_bad_ratio does with the answer.
cloudwatch_query(ts, window, query, answer) ==
    LET call == [api |-> "get_metric_data", MetricDataQueries |-> query,
                 StartTime |-> ts - window, EndTime |-> ts,
                 MaxDatapoints |-> 1000]
    IN  IF answer.raises THEN Done(Raises("ClientError"), <<call>>)
        ELSE Done(Returns(DictValue(answer.response)), <<call>>)

\* CloudwatchBackend.good_bad_ratio
cloudwatch_good_bad_ratio(ts, window, config, answer) ==
    LET measurement == config.backend.measurement
        query_good == measurement.query_good
        query_bad == measurement.query_bad
        query_valid == measurement.query_valid
        json_good == get_query_body("good", query_good, "Sum", window)
        json_bad == get_query_body("bad", query_bad, "Sum", window)
        json_valid == get_query_body("valid", query_valid, "Sum", window)
    IN  IF ~query_good.present THEN Done(Raises("KeyError"), <<>>)
        ELSE IF json_good.kind = "raise" THEN Done(json_good, <<>>)
        ELSE IF query_bad.truthy
        THEN cloudwatch_query(ts, window,
                 <<json_ratio("good / (good + bad)"), json_good.value,
                   json_bad.value>>, answer)
        ELSE IF query_valid.truthy
        THEN cloudwatch_query(ts, window,
                 <<json_ratio("good / valid"), json_good.value,
                   json_valid.value>>, answer)
        ELSE Done(Raises("Exception"), <<>>)

(***************************************************************************)
(* StackdriverServiceMonitoringBackend: configs, ids, service and SLO JSON *)
(*                                                                         *)
(* A dict is a function from its keys; a key is present when it is in the  *)
(* DOMAIN. A formatted string is the tuple of its parts; a resource name   *)
(* is the record of its path components.                                   *)
(***************************************************************************)
EmptyDict == <<>>
Get(d, k, default) == IF k \in DOMAIN d THEN d[k] ELSE default
WithKey(cond, k, v) == IF cond THEN [x \in {k} |-> v] ELSE EmptyDict

SsmBackend(method, measurement) ==
    [class |-> "StackdriverServiceMonitoring", method |-> method,
     project_id |-> "proj", measurement |-> measurement]

SsmConfig(slo_name, target, backend) ==
    [service_name |-> "svc", feature_name |-> "feat", slo_name |-> slo_name,
     slo_description |-> "desc", slo_target |-> target, backend |-> backend]

\* projects/{project_id}/services/{service_id}
service_path(project_id, service_id) ==
    [project |-> project_id, service |-> service_id]

\* build_service_id
build_service_id(config, full) ==
    LET backend == config.backend
        app_engine == Get(backend, "app_engine", EmptyDict)
        cluster_istio == Get(backend, "cluster_istio", EmptyDict)
        mesh_istio == Get(backend, "mesh_istio", EmptyDict)
        cloud_endpoints == Get(backend, "cloud_endpoints", EmptyDict)
        service_id ==
            IF app_engine # EmptyDict
            THEN <<"gae:", app_engine.project_id, "_", app_engine.module_id>>
            ELSE IF cluster_istio # EmptyDict
            THEN <<"ist:", cluster_istio.project_id, "-zone-",
                   cluster_istio.location, "-", cluster_istio.cluster_name, "-",
                   cluster_istio.service_namespace, "-",
                   cluster_istio.service_name>>
            ELSE IF mesh_istio # EmptyDict
            THEN <<"ist:", mesh_istio.project_id, "-", mesh_istio.mesh_uid, "-",
                   mesh_istio.service_namespace, "-", mesh_istio.service_name>>
            ELSE IF cloud_endpoints # EmptyDict
            THEN <<"ist:", cloud_endpoints.project_id, "-",
                   cloud_endpoints.service>>
            ELSE <<config.service_name, "-", config.feature_name>>
    IN  IF full THEN service_path(backend.project_id, service_id)
        ELSE service_id

\* Mutant: the full resource id is built without the window.
build_slo_id_FullWithoutWindow(window, config, full) ==
    LET slo_name == IF "slo_id" \in DOMAIN config
                    THEN config.slo_id ELSE config.slo_name
    IN  IF full
        THEN [project |-> config.backend.project_id,
              service |-> <<config.service_name, "-", config.feature_name>>,
              slo |-> <<slo_name>>]
        ELSE <<slo_name, "-", window>>

\* build_slo_id
build_slo_id(window, config, full) ==
    LET slo_id == IF "slo_id" \in DOMAIN config
                  THEN <<config.slo_id, "-", window>>
                  ELSE <<config.slo_name, "-", window>>
    IN  IF full
        THEN [project |-> config.backend.project_id,
              service |-> build_service_id(config, FALSE),
              slo |-> slo_id]
        ELSE slo_id

\* Mutant: method 'basic' gets a service without a custom definition.
build_service_AcceptsBasic(config) ==
    LET method == config.backend.method
        service_id == build_service_id(config, FALSE)
        display_name == Get(config, "service_display_name", service_id)
    IN  IF method # "basic"
        THEN Returns([display_name |-> display_name, custom |-> EmptyDict])
        ELSE Returns([display_name |-> display_name])

\* build_service
build_service(config) ==
    LET method == config.backend.method
        service_id == build_service_id(config, FALSE)
        display_name == Get(config, "service_display_name", service_id)
    IN  IF method # "basic"
        THEN Returns([display_name |-> display_name, custom |-> EmptyDict])
        ELSE Raises("Exception")

\* build_slo: the service_level_indicator of method 'basic'
basic_sli(measurement) ==
    LET methods == Get(measurement, "method", <<>>)
        locations == Get(measurement, "location", <<>>)
        versions == Get(measurement, "version", <<>>)
        threshold == Get(Get(measurement, "latency", EmptyDict), "threshold", 0)
    IN  WithKey(methods # <<>>, "method", methods)
        @@ WithKey(locations # <<>>, "location", locations)
        @@ WithKey(versions # <<>>, "version", versions)
        @@ (IF threshold # 0
            THEN [latency |-> [threshold |->
                     [seconds |-> 0, nanos |-> threshold * 10^6]]]
            ELSE [availability |-> EmptyDict])

\* build_slo: the service_level_indicator of method 'good_bad_ratio'
good_total_ratio(measurement) ==
    LET filter_good == Get(measurement, "filter_good", "")
        filter_bad == Get(measurement, "filter_bad", "")
        filter_valid == Get(measurement, "filter_valid", "")
    IN  WithKey(filter_good # "", "good_service_filter", filter_good)
        @@ WithKey(filter_bad # "", "bad_service_filter", filter_bad)
        @@ WithKey(filter_valid # "", "total_service_filter", filter_valid)

\* build_slo: the service_level_indicator of method 'distribution_cut'
distribution_cut_sli(measurement) ==
    LET range_min == Get(measurement, "range_min", 0)
    IN  [distribution_filter |-> Get(measurement, "filter_valid", ""),
         range |-> [max |-> measurement.range_max]
                   @@ WithKey(range_min # 0, "min", range_min)]

\* build_slo
build_slo(window, config) ==
    LET measurement == Get(config.backend, "measurement", EmptyDict)
        method == config.backend.method
        hours == (window \div 60) \div 60
        slo == [display_name |-> <<config.slo_description, " (", hours, "h)">>,
                goal |-> config.slo_target,
                rolling_period |-> [seconds |-> window]]
    IN  IF method = "basic"
        THEN Returns(slo @@ [service_level_indicator |->
                                [basic_sli |-> basic_sli(measurement)]])
        ELSE IF method = "good_bad_ratio"
        THEN Returns(slo @@ [service_level_indicator |->
                 [request_based |->
                     [good_total_ratio |-> good_total_ratio(measurement)]]])
        ELSE IF method = "distribution_cut"
        THEN IF "range_max" \notin DOMAIN measurement THEN Raises("KeyError")
             ELSE Returns(slo @@ [service_level_indicator |->
                      [request_based |->
                          [distribution_cut |-> distribution_cut_sli(measurement)]]])
        ELSE IF method = "windows"
        THEN Returns(slo @@ [service_level_indicator |->
                 [windows_based |->
                     [window_period |-> window,
                      good_bad_metric_filter |->
                          Get(measurement, "filter", "None")]]])
        ELSE Raises("Exception")

(***************************************************************************)
(* Conversions between the local SLO JSON and the API's JSON               *)
(***************************************************************************)
\* utils.dict_snake_to_caml: snake_to_caml on the keys the SLO JSON uses.
snake_to_caml(word) ==
    CASE word = "display_name" -> "displayName"
      [] word = "rolling_period" -> "rollingPeriod"
      [] word = "service_level_indicator" -> "serviceLevelIndicator"
      [] word = "basic_sli" -> "basicSli"
      [] word = "request_based" -> "requestBased"
      [] word = "good_total_ratio" -> "goodTotalRatio"
      [] word = "good_service_filter" -> "goodServiceFilter"
      [] word = "bad_service_filter" -> "badServiceFilter"
      [] word = "total_service_filter" -> "totalServiceFilter"
      [] word = "distribution_cut" -> "distributionCut"
      [] word = "distribution_filter" -> "distributionFilter"
      [] word = "windows_based" -> "windowsBased"
      [] word = "window_period" -> "windowPeriod"
      [] word = "good_bad_metric_filter" -> "goodBadMetricFilter"
      [] OTHER -> word

\* The keys of the SLO and service JSON whose values are mappings.
MappingKeys ==
    {"rolling_period", "service_level_indicator", "basic_sli", "request_based",
     "good_total_ratio", "distribution_cut", "range", "windows_based",
     "latency", "threshold", "availability", "custom"}

\* utils.apply_func_dict with func = snake_to_caml
RECURSIVE dict_snake_to_caml(_)
dict_snake_to_caml(data) ==
    [key \in {snake_to_caml(k) : k \in DOMAIN data} |->
        LET k == CHOOSE k \in DOMAIN data : snake_to_caml(k) = key
        IN  IF k \in MappingKeys THEN dict_snake_to_caml(data[k]) ELSE data[k]]

\* convert_duration_to_string: "<n>s" for whole seconds, else "{:0.3f}s".
convert_duration_to_string(duration) ==
    LET nanos == Get(duration, "nanos", 0)
        seconds == Get(duration, "seconds", 0) + nanos \div 10^9
        millis == ((nanos % 10^9) + 500000) \div 10^6
    IN  IF nanos % 10^9 = 0 THEN <<seconds, "s">>
        ELSE <<seconds + millis \div 1000, ".", millis % 1000, "s">>

\* convert_slo_to_ssm_format
convert_slo_to_ssm_format(slo) ==
    LET data == dict_snake_to_caml(slo)
        data2 ==
            IF "rollingPeriod" \in DOMAIN data
            THEN [data EXCEPT !["rollingPeriod"] =
                      convert_duration_to_string(data["rollingPeriod"])]
            ELSE data
        has_latency ==
            /\ "serviceLevelIndicator" \in DOMAIN data2
            /\ "basicSli" \in DOMAIN data2["serviceLevelIndicator"]
            /\ "latency" \in DOMAIN data2["serviceLevelIndicator"]["basicSli"]
    IN  IF has_latency
        THEN [data2 EXCEPT
                 !["serviceLevelIndicator"]["basicSli"]["latency"]["threshold"] =
                     convert_duration_to_string(@)]
        ELSE data2

\* compare_slo: equal JSON texts, the `name` key left out of both.
WithoutKeys(d, keys) == [k \in DOMAIN d \ keys |-> d[k]]

compare_slo(slo1, slo2) ==
    WithoutKeys(slo1, {"name"}) = WithoutKeys(slo2, {"name"})

(***************************************************************************)
(* The Service Monitoring API: what it stores and how it answers           *)
(***************************************************************************)
\* The string fields of the SLO message; a proto3 message does not keep an
\* empty string apart from an unset field.
StringKeys ==
    {"distribution_filter", "good_service_filter", "bad_service_filter",
     "total_service_filter", "good_bad_metric_filter"}

\* The message the client builds from a JSON dict.
RECURSIVE ToMessage(_)
ToMessage(data) ==
    [k \in {x \in DOMAIN data : ~(x \in StringKeys /\ data[x] = "")} |->
        IF k \in MappingKeys THEN ToMessage(data[k]) ELSE data[k]]

\* A Duration in the API's JSON: whole seconds, or 3 fractional digits for
\* a whole number of milliseconds.
DurationJson(duration) ==
    LET seconds == Get(duration, "seconds", 0)
        nanos == Get(duration, "nanos", 0)
    IN  IF nanos = 0 THEN <<seconds, "s">>
        ELSE <<seconds, ".", nanos \div 10^6, "s">>

\* to_json: json.loads(MessageToJson(response)) of a stored message.
DurationKeys == {"rolling_period", "threshold"}

RECURSIVE MessageToJson(_)
MessageToJson(message) ==
    [key \in {snake_to_caml(k) : k \in DOMAIN message} |->
        LET k == CHOOSE k \in DOMAIN message : snake_to_caml(k) = key
        IN  IF k \in DurationKeys THEN DurationJson(message[k])
            ELSE IF k \in MappingKeys THEN MessageToJson(message[k])
            ELSE message[k]]

to_json(response) == MessageToJson(response)

\* The API calls of the adapter. A fault is an API call the provider fails.
Apis ==
    {"list_services", "create_service", "list_service_level_objectives",
     "create_service_level_objective", "update_service_level_objective",
     "delete_service_level_objective", "list_time_series"}

ApiCall(api, name) == [api |-> api, name |-> name]

\* An adapter operation's outcome, the remote state it leaves and the API
\* calls it made, in order.
Ran(outcome, rem, calls) == [outcome |-> outcome, remote |-> rem, calls |-> calls]

ServiceNamed(rem, name) == {svc \in rem.services : svc.name = name}
SloNamed(rem, name) == {slo \in rem.slos : slo.name = name}

(***************************************************************************)
(* StackdriverServiceMonitoringBackend: the operations on the remote state *)
(***************************************************************************)
project_path(project_id) == [project |-> project_id]

\* The one value of a singleton set: {e : x \in {v}} names v once as x in e.
Only(S) == CHOOSE x \in S : TRUE

\* get_service
get_service(rem, config, faults) ==
    LET project_id == config.backend.project_id
        service_id == build_service_id(config, FALSE)
        project == project_path(project_id)
        calls == <<ApiCall("list_services", project)>>
        matches == {service \in rem.services :
                       /\ service.name.project = project_id
                       /\ service.name.service = service_id}
    IN  IF "list_services" \in faults
        THEN Ran(Raises("GoogleAPIError"), rem, calls)
        ELSE IF matches # {}
        THEN Ran(Returns(DictValue(to_json(Only(matches)))), rem, calls)
        ELSE Ran(Returns(NoneValue), rem, calls)

\* create_service
create_service(rem, config, faults) ==
    LET project_id == config.backend.project_id
        service_id == build_service_id(config, FALSE)
        name == service_path(project_id, service_id)
        calls == <<ApiCall("create_service", name)>>
    IN  Only({
          IF service_json.kind = "raise" THEN Ran(service_json, rem, <<>>)
          ELSE IF "create_service" \in faults
          THEN Ran(Raises("GoogleAPIError"), rem, calls)
          ELSE IF ServiceNamed(rem, name) # {}
          THEN Ran(Raises("AlreadyExists"), rem, calls)
          ELSE Only({Ran(Returns(DictValue(to_json(service))),
                         [rem EXCEPT !.services = @ \cup {service}], calls)
                     : service \in
                         {ToMessage(service_json.value) @@ [name |-> name]}})
          : service_json \in {build_service(config)}})

\* list_slos; the API keeps one SLO per name, so the list is read as a set.
list_slos(rem, service_id, config, faults) ==
    LET project_id == config.backend.project_id
        parent == service_path(project_id, service_id)
        calls == <<ApiCall("list_service_level_objectives", parent)>>
        slos == {slo \in rem.slos :
                    service_path(slo.name.project, slo.name.service) = parent}
    IN  IF "list_service_level_objectives" \in faults
        THEN Ran(Raises("GoogleAPIError"), rem, calls)
        ELSE IF ServiceNamed(rem, parent) = {}
        THEN Ran(Raises("NotFound"), rem, calls)
        ELSE Ran(Returns({to_json(slo) : slo \in slos}), rem, calls)

\* update_slo
update_slo(rem, window, config, faults) ==
    LET slo_id == build_slo_id(window, config, TRUE)
        calls == <<ApiCall("update_service_level_objective", slo_id)>>
    IN  Only({
          IF slo_json.kind = "raise" THEN Ran(slo_json, rem, <<>>)
          ELSE IF "update_service_level_objective" \in faults
          THEN Ran(Raises("GoogleAPIError"), rem, calls)
          ELSE IF SloNamed(rem, slo_id) = {}
          THEN Ran(Raises("NotFound"), rem, calls)
          ELSE Only({Ran(Returns(DictValue(to_json(slo))),
                         [rem EXCEPT
                             !.slos = (@ \ SloNamed(rem, slo_id)) \cup {slo}],
                         calls)
                     : slo \in {ToMessage(slo_json.value) @@ [name |-> slo_id]}})
          : slo_json \in {build_slo(window, config)}})

\* Mutant: an SLO found under the local id is updated without comparing it.
get_slo_loop_UpdatesWithoutCompare(rem, window, config, faults, slos, slo_json) ==
    LET slo_local_id == build_slo_id(window, config, FALSE)
        found == {slo \in slos.outcome.value : slo.name.slo = slo_local_id}
    IN  IF found = {} THEN Ran(Returns(NoneValue), rem, slos.calls)
        ELSE Only({Ran(updated.outcome, updated.remote,
                       slos.calls \o updated.calls)
                   : updated \in {update_slo(rem, window, config, faults)}})

\* get_slo: the loop over the SLOs of the service
get_slo_loop(rem, window, config, faults, slos, slo_json) ==
    LET slo_local_id == build_slo_id(window, config, FALSE)
        found == {slo \in slos.outcome.value : slo.name.slo = slo_local_id}
    IN  IF found = {} THEN Ran(Returns(NoneValue), rem, slos.calls)
        ELSE Only({
               IF compare_slo(slo_json, slo)
               THEN Ran(Returns(DictValue(slo)), rem, slos.calls)
               ELSE Only({Ran(updated.outcome, updated.remote,
                              slos.calls \o updated.calls)
                          : updated \in {update_slo(rem, window, config, faults)}})
               : slo \in {Only(found)}})

\* get_slo
get_slo(rem, window, config, faults) ==
    LET service_id == build_service_id(config, FALSE)
    IN  Only({
          IF slos.outcome.kind = "raise" THEN slos
          ELSE IF slo_json.kind = "raise" THEN Ran(slo_json, rem, slos.calls)
          ELSE Only({get_slo_loop(rem, window, config, faults, slos, converted)
                     : converted \in {convert_slo_to_ssm_format(slo_json.value)}})
          : slos \in {list_slos(rem, service_id, config, faults)},
            slo_json \in {build_slo(window, config)}})

\* create_slo
create_slo(rem, window, config, faults) ==
    LET project_id == config.backend.project_id
        service_id == build_service_id(config, FALSE)
        parent == service_path(project_id, service_id)
        slo_id == build_slo_id(window, config, FALSE)
        name == [project |-> project_id, service |-> service_id, slo |-> slo_id]
        calls == <<ApiCall("create_service_level_objective", name)>>
    IN  Only({
          IF slo_json.kind = "raise" THEN Ran(slo_json, rem, <<>>)
          ELSE IF "create_service_level_objective" \in faults
          THEN Ran(Raises("GoogleAPIError"), rem, calls)
          ELSE IF ServiceNamed(rem, parent) = {}
          THEN Ran(Raises("NotFound"), rem, calls)
          ELSE IF SloNamed(rem, name) # {}
          THEN Ran(Raises("AlreadyExists"), rem, calls)
          ELSE Only({Ran(Returns(DictValue(to_json(slo))),
                         [rem EXCEPT !.slos = @ \cup {slo}], calls)
                     : slo \in {ToMessage(slo_json.value) @@ [name |-> name]}})
          : slo_json \in {build_slo(window, config)}})

\* delete_slo
delete_slo(rem, window, config, faults) ==
    LET slo_id == build_slo_id(window, config, TRUE)
        calls == <<ApiCall("delete_service_level_objective", slo_id)>>
    IN  IF "delete_service_level_objective" \in faults
        THEN Ran(Raises("GoogleAPIError"), rem, calls)
        ELSE IF SloNamed(rem, slo_id) = {}
        THEN Ran(Returns(NoneValue), rem, calls)
        ELSE Ran(Returns(DictValue(EmptyDict)),
                 [rem EXCEPT !.slos = @ \ SloNamed(rem, slo_id)], calls)

\* retrieve_slo: the SLO's timeseries query and count
query_slo_counts(rem, window, config, faults, timeseries, calls) ==
    LET metric_filter == build_slo_id(window, config, TRUE)
        filter == <<"select_slo_counts(\"", metric_filter, "\")">>
        queried == calls \o <<ApiCall("list_time_series", filter)>>
    IN  IF "list_time_series" \in faults
        THEN Ran(Raises("GoogleAPIError"), rem, queried)
        ELSE Only({Ran(Returns(TupleValue(counts[1], counts[2])), rem, queried)
                   : counts \in {count(timeseries)}})

\* Mutant: an SLO that was just created is reported without data, unqueried.
retrieve_slo_from_service_NoQueryAfterCreate(rem, window, config, faults, timeseries, calls) ==
    Only({
      IF got.outcome.kind = "raise"
      THEN Ran(got.outcome, got.remote, calls \o got.calls)
      ELSE IF got.outcome.value.type # "None"
      THEN query_slo_counts(got.remote, window, config, faults, timeseries,
                            calls \o got.calls)
      ELSE Only({
             IF created.outcome.kind = "raise"
             THEN Ran(created.outcome, created.remote,
                      calls \o got.calls \o created.calls)
             ELSE Ran(Returns(TupleValue(0, 0)), created.remote,
                      calls \o got.calls \o created.calls)
             : created \in {create_slo(got.remote, window, config, faults)}})
      : got \in {get_slo(rem, window, config, faults)}})

\* retrieve_slo: get or create the SLO, then query it
retrieve_slo_from_service(rem, window, config, faults, timeseries, calls) ==
    Only({
      IF got.outcome.kind = "raise"
      THEN Ran(got.outcome, got.remote, calls \o got.calls)
      ELSE IF got.outcome.value.type # "None"
      THEN query_slo_counts(got.remote, window, config, faults, timeseries,
                            calls \o got.calls)
      ELSE Only({
             IF created.outcome.kind = "raise"
             THEN Ran(created.outcome, created.remote,
                      calls \o got.calls \o created.calls)
             ELSE query_slo_counts(created.remote, window, config, faults,
                                   timeseries,
                                   calls \o got.calls \o created.calls)
             : created \in {create_slo(got.remote, window, config, faults)}})
      : got \in {get_slo(rem, window, config, faults)}})

\* Mutant: create_service is called whatever the service lookup returned.
retrieve_slo_AlwaysCreatesService(rem, ts, window, config, faults, timeseries) ==
    Only({
      IF got.outcome.kind = "raise" THEN got
      ELSE Only({
             IF created.outcome.kind = "raise"
             THEN Ran(created.outcome, created.remote,
                      got.calls \o created.calls)
             ELSE retrieve_slo_from_service(created.remote, window, config,
                                            faults, timeseries,
                                            got.calls \o created.calls)
             : created \in {create_service(got.remote, config, faults)}})
      : got \in {get_service(rem, config, faults)}})

\* retrieve_slo
retrieve_slo(rem, ts, window, config, faults, timeseries) ==
    Only({
      IF got.outcome.kind = "raise" THEN got
      ELSE IF got.outcome.value.type # "None"
      THEN retrieve_slo_from_service(got.remote, window, config, faults,
                                     timeseries, got.calls)
      ELSE Only({
             IF created.outcome.kind = "raise"
             THEN Ran(created.outcome, created.remote,
                      got.calls \o created.calls)
             ELSE retrieve_slo_from_service(created.remote, window, config,
                                            faults, timeseries,
                                            got.calls \o created.calls)
             : created \in {create_service(got.remote, config, faults)}})
      : got \in {get_service(rem, config, faults)}})

(***************************************************************************)
(* The assignments of the adapter's operations and the slo_config          *)
(*                                                                         *)
(* An item assignment d[k] = v changes the dict d. It changes the caller's *)
(* slo_config when d is slo_config itself or an object the config holds.   *)
(* An object is named by its path in the dict an operation works on.       *)
(***************************************************************************)
Write(object, path) == [object |-> object, path |-> path]

IsPrefix(p, q) == Len(p) <= Len(q) /\ SubSeq(q, 1, Len(p)) = p
Container(path) == SubSeq(path, 1, Len(path) - 1)
CamlPath(path) == [i \in DOMAIN path |-> snake_to_caml(path[i])]

\* build_slo: the objects of slo_config that the SLO JSON holds by
\* reference: the method, location and version lists of method 'basic'.
build_slo_shared(window, config) ==
    LET measurement == Get(config.backend, "measurement", EmptyDict)
    IN  IF config.backend.method = "basic"
        THEN {<<"service_level_indicator", "basic_sli", k>> :
                k \in {x \in {"method", "location", "version"} :
                         Get(measurement, x, <<>>) # <<>>}}
        ELSE {}

\* build_slo: its item assignments, all into the dicts it creates.
build_slo_writes(window, config) ==
    LET measurement == Get(config.backend, "measurement", EmptyDict)
        method == config.backend.method
        sli == <<"service_level_indicator">>
    IN  IF method = "basic"
        THEN {Write("slo", sli)} \cup
             {Write("slo", sli \o <<"basic_sli", k>>) :
                k \in DOMAIN basic_sli(measurement)}
        ELSE IF method = "good_bad_ratio"
        THEN {Write("slo", sli)} \cup
             {Write("slo", sli \o <<"request_based", "good_total_ratio", k>>) :
                k \in DOMAIN good_total_ratio(measurement)}
        ELSE IF method = "distribution_cut"
        THEN IF "range_max" \notin DOMAIN measurement THEN {}
             ELSE {Write("slo", sli)} \cup
                  (IF Get(measurement, "range_min", 0) # 0
                   THEN {Write("slo", sli \o <<"request_based",
                                "distribution_cut", "range", "min">>)}
                   ELSE {})
        ELSE IF method = "windows" THEN {Write("slo", sli)}
        ELSE {}

\* Mutant: update_slo sets the name on the slo_config it was given.
update_slo_writes_IntoConfig == {Write("slo_config", <<"name">>)}

\* update_slo: slo_json['name'] = slo_id
update_slo_writes == {Write("slo", <<"name">>)}

\* convert_slo_to_ssm_format: its assignments into the dict that
\* dict_snake_to_caml returns, a new dict for every mapping of the SLO JSON.
convert_slo_to_ssm_format_writes(slo) ==
    LET sli == Get(slo, "service_level_indicator", EmptyDict)
        latency == Get(Get(sli, "basic_sli", EmptyDict), "latency", EmptyDict)
    IN  {Write("data", <<"rollingPeriod">>)} \cup
        (IF "threshold" \in DOMAIN latency
         THEN {Write("data", <<"serviceLevelIndicator", "basicSli", "latency",
                               "threshold">>)}
         ELSE {})

\* An assignment reaches the slo_config: it is into slo_config, or into an
\* object at or under one the config shares.
WritesConfig(shared, writes) ==
    \E w \in writes :
       \/ w.object = "slo_config"
       \/ \E a \in shared :
             \/ IsPrefix(a, Container(w.path))
             \/ IsPrefix(CamlPath(a), Container(w.path))

\* The slo_config as the assignments leave it.
AfterWrites(config, shared, writes) ==
    IF WritesConfig(shared, writes) THEN [written |-> TRUE] @@ config
    ELSE config

\* The slo_config after each operation.
build_slo_config(window, config) ==
    AfterWrites(config, build_slo_shared(window, config),
                build_slo_writes(window, config))

update_slo_config(window, config) ==
    AfterWrites(config, build_slo_shared(window, config),
                build_slo_writes(window, config) \cup update_slo_writes)

create_slo_config(window, config) == build_slo_config(window, config)

get_slo_config(window, config) ==
    LET slo_json == build_slo(window, config)
        converted == IF slo_json.kind = "raise" THEN {}
                     ELSE convert_slo_to_ssm_format_writes(slo_json.value)
    IN  AfterWrites(config, build_slo_shared(window, config),
                    build_slo_writes(window, config) \cup converted
                    \cup update_slo_writes)

retrieve_slo_config(window, config) == get_slo_config(window, config)

delete_slo_config(window, config) == config

(***************************************************************************)
(* SpecCloudwatch: calls of CloudwatchBackend.good_bad_ratio               *)
(***************************************************************************)
\* The last adapter call: what it was given, its outcome, its provider calls.
Call(adapter, method, config, window, outcome, calls) ==
    [adapter |-> adapter, method |-> method, config |-> config,
     window |-> window, outcome |-> outcome, calls |-> calls]

InitCloudwatch ==
    /\ EngineIdle
    /\ CliIdle
    /\ AdaptersIdle

CloudwatchGoodBadRatio ==
    /\ \E config \in CloudwatchConfigs, window \in Windows, ts \in Timestamps,
          answer \in CloudwatchAnswers :
          LET done == cloudwatch_good_bad_ratio(ts, window, config, answer)
          IN  /\ slo_config' = config
              /\ last' = Call("Cloudwatch", "good_bad_ratio", config, window,
                              done.outcome, done.calls)
    /\ UNCHANGED <<engineRest, cliVars, remote>>

NextCloudwatch == CloudwatchGoodBadRatio

SpecCloudwatch == InitCloudwatch /\ [][NextCloudwatch]_vars

CloudwatchCalled ==
    /\ last.adapter = "Cloudwatch"
    /\ last.method = "good_bad_ratio"

QuerySent ==
    \E i \in 1..Len(last.calls) : last.calls[i].api = "get_metric_data"

\* C8: good_bad_ratio called with a measurement that lacks a required field
\* (query_good missing, or both query_bad and query_valid missing) fails
\* with ConfigurationError, and no query was sent to the provider.
C8_MissingFieldIsConfigurationError ==
    LET measurement == last.config.backend.measurement
    IN  (/\ CloudwatchCalled
         /\ \/ ~measurement.query_good.present
            \/ ~measurement.query_bad.present /\ ~measurement.query_valid.present)
        => /\ last.outcome.kind = "raise"
           /\ last.outcome.error = "ConfigurationError"
           /\ ~QuerySent

\* C9: whenever good_bad_ratio sent a query to the provider, the config it
\* was called with carries exactly one of query_bad / query_valid.
C9_QueryOnlyWithExactlyOneOf ==
    LET measurement == last.config.backend.measurement
    IN  (CloudwatchCalled /\ QuerySent)
        => (measurement.query_bad.truthy # measurement.query_valid.truthy)

\* C10: a successful call of an adapter's good_bad_ratio returns a pair
\* (good_event_count, bad_event_count) of non-negative counts, and nothing
\* else.
C10_GoodBadRatioReturnsCounts ==
    (/\ last.adapter \in {"Cloudwatch", "StackdriverServiceMonitoring"}
     /\ last.method = "good_bad_ratio"
     /\ last.outcome.kind = "return")
    => /\ last.outcome.value.type = "tuple"
       /\ last.outcome.value.good >= 0
       /\ last.outcome.value.bad >= 0

(***************************************************************************)
(* SpecSsm: calls of StackdriverServiceMonitoringBackend on one project    *)
(***************************************************************************)
SsmMethods == {"good_bad_ratio", "distribution_cut", "basic", "window"}

SsmBackends ==
    {SsmBackend("good_bad_ratio",
                [filter_good |-> "good_filter", filter_bad |-> "bad_filter"]),
     SsmBackend("distribution_cut",
                [filter_valid |-> "valid_filter", range_max |-> 5]),
     SsmBackend("distribution_cut", [range_min |-> 1]),
     SsmBackend("basic", [method |-> <<"GET">>,
                          latency |-> [threshold |-> 300]])
         @@ [app_engine |-> [project_id |-> "proj", module_id |-> "default"]],
     SsmBackend("window", [filter |-> "window_filter"]),
     SsmBackend("foo", EmptyDict)}

SsmConfigs ==
    {SsmConfig("slo", <<9, 10>>, backend) : backend \in SsmBackends}
    \cup {SsmConfig("slo", <<1, 2>>, backend) :
            backend \in {b \in SsmBackends : b.method = "good_bad_ratio"}}

\* The answers to the query of an SLO's counts.
SloCounts ==
    {<<>>,
     <<TimeSeries("good", <<MaxCount>>)>>,
     <<TimeSeries("bad", <<1>>), TimeSeries("good", <<MaxCount>>)>>,
     <<TimeSeries("good", <<0>>), TimeSeries("bad", <<0>>)>>}

\* The windows of the SLOs kept on the project.
SsmWindows == {3600, 7200}

\* No API call fails, or one does.
Faults == {{}} \cup {{api} : api \in Apis}

\* The API calls an operation can make.
RetrieveApis == Apis \ {"delete_service_level_objective"}
DeleteApis == {"delete_service_level_objective"}

InitSsm ==
    /\ EngineIdle
    /\ CliIdle
    /\ AdaptersIdle

\* good_bad_ratio, distribution_cut, basic, window: each is retrieve_slo.
\* A config whose method names none of them is given to retrieve_slo itself.
SsmRetrieveSlo ==
    /\ \E config \in SsmConfigs, window \in SsmWindows, ts \in Timestamps,
          faults \in Faults \cap SUBSET RetrieveApis :
          \E timeseries \in IF faults = {} THEN SloCounts ELSE {<<>>} :
          \E ran \in {retrieve_slo(remote, ts, window, config, faults,
                                    timeseries)} :
          LET method == IF config.backend.method \in SsmMethods
                        THEN config.backend.method ELSE "retrieve_slo"
          IN  /\ remote' = ran.remote
              /\ slo_config' = retrieve_slo_config(window, config)
              /\ last' = Call("StackdriverServiceMonitoring", method, config,
                              window, ran.outcome, ran.calls)
    /\ UNCHANGED <<engineRest, cliVars>>

\* delete
SsmDelete ==
    /\ \E config \in SsmConfigs, window \in SsmWindows,
          faults \in Faults \cap SUBSET DeleteApis :
          \E ran \in {delete_slo(remote, window, config, faults)} :
              /\ remote' = ran.remote
              /\ slo_config' = delete_slo_config(window, config)
              /\ last' = Call("StackdriverServiceMonitoring", "delete", config,
                              window, ran.outcome, ran.calls)
    /\ UNCHANGED <<engineRest, cliVars>>

\* create_slo
SsmCreateSlo ==
    /\ \E config \in SsmConfigs, window \in SsmWindows,
          faults \in Faults \cap SUBSET {"create_service_level_objective"} :
          \E ran \in {create_slo(remote, window, config, faults)} :
              /\ remote' = ran.remote
              /\ slo_config' = create_slo_config(window, config)
              /\ last' = Call("StackdriverServiceMonitoring", "create_slo",
                              config, window, ran.outcome, ran.calls)
    /\ UNCHANGED <<engineRest, cliVars>>

\* update_slo
SsmUpdateSlo ==
    /\ \E config \in SsmConfigs, window \in SsmWindows,
          faults \in Faults \cap SUBSET {"update_service_level_objective"} :
          \E ran \in {update_slo(remote, window, config, faults)} :
              /\ remote' = ran.remote
              /\ slo_config' = update_slo_config(window, config)
              /\ last' = Call("StackdriverServiceMonitoring", "update_slo",
                              config, window, ran.outcome, ran.calls)
    /\ UNCHANGED <<engineRest, cliVars>>

\* get_slo
SsmGetSlo ==
    /\ \E config \in SsmConfigs, window \in SsmWindows,
          faults \in Faults \cap SUBSET {"list_service_level_objectives",
                                        "update_service_level_objective"} :
          \E ran \in {get_slo(remote, window, config, faults)} :
              /\ remote' = ran.remote
              /\ slo_config' = get_slo_config(window, config)
              /\ last' = Call("StackdriverServiceMonitoring", "get_slo",
                              config, window, ran.outcome, ran.calls)
    /\ UNCHANGED <<engineRest, cliVars>>

\* build_slo
SsmBuildSlo ==
    /\ \E config \in SsmConfigs, window \in SsmWindows :
          \E slo_json \in {build_slo(window, config)} :
              /\ slo_config' = build_slo_config(window, config)
              /\ last' = Call("StackdriverServiceMonitoring", "build_slo",
                              config, window,
                              IF slo_json.kind = "raise" THEN slo_json
                              ELSE Returns(DictValue(slo_json.value)), <<>>)
    /\ UNCHANGED <<engineRest, cliVars, remote>>

NextSsm ==
    \/ SsmRetrieveSlo
    \/ SsmDelete
    \/ SsmCreateSlo
    \/ SsmUpdateSlo
    \/ SsmGetSlo
    \/ SsmBuildSlo

SpecSsm == InitSsm /\ [][NextSsm]_vars

SsmCalled == last.adapter = "StackdriverServiceMonitoring"

\* The adapter rejected the config's method: build_service and build_slo
\* raise Exception('Method ... is not supported.').
RejectedAsUnsupported ==
    /\ last.outcome.kind = "raise"
    /\ last.outcome.error = "Exception"

\* C11: an adapter method of the closed set (good_bad_ratio,
\* distribution_cut, basic, window), called with a config whose
\* backend.method is that same name, never rejects the method as unsupported.
C11_ExposedMethodsAreSupported ==
    (/\ SsmCalled
     /\ last.method \in SsmMethods
     /\ last.config.backend.method = last.method)
    => ~RejectedAsUnsupported

\* C12: a config whose backend.method is not a recognized method name fails
\* with UnsupportedMethodError (the provider answering every call).
C12_UnknownMethodIsUnsupportedMethodError ==
    (/\ SsmCalled
     /\ last.method = "retrieve_slo"
     /\ last.config.backend.method \notin SsmMethods
     /\ ~(last.outcome.kind = "raise" /\ last.outcome.error = "GoogleAPIError"))
    => /\ last.outcome.kind = "raise"
       /\ last.outcome.error = "UnsupportedMethodError"

\* The SLOs create_slo creates for a config and a window on a project that
\* holds the config's service and no SLO: one SLO, or none when it fails.
CreatedBy(window, config) ==
    Only({create_slo(created.remote, window, config, {}).remote.slos
          : created \in {create_service(NoRemote, config, {})}})

OtherSlos(rem, name) == {slo \in rem.slos : slo.name # name}

\* C13: delete_slo and update_slo act on the SLO that create_slo creates for
\* the same config and window: a delete leaves that SLO absent, an update
\* leaves it present, and neither touches a service or any other SLO.
C13_SameIdentityKeys ==
    [][(/\ last'.adapter = "StackdriverServiceMonitoring"
        /\ last'.method \in {"delete", "update_slo"}
        /\ last'.outcome.kind = "return"
        /\ CreatedBy(last'.window, last'.config) # {})
       => LET name == Only(CreatedBy(last'.window, last'.config)).name
          IN  /\ remote'.services = remote.services
              /\ OtherSlos(remote', name) = OtherSlos(remote, name)
              /\ last'.method = "delete" => SloNamed(remote', name) = {}
              /\ last'.method = "update_slo" => SloNamed(remote', name) # {}]_vars

\* An SLO was deleted and another SLO is still on the project.
C13_Witness ==
    /\ SsmCalled
    /\ last.method = "delete"
    /\ last.outcome.kind = "return"
    /\ last.outcome.value.type = "dict"
    /\ remote.slos # {}

\* C14: deleting an SLO that is not on the remote service (the provider
\* answers not-found) fails: the delete call raises an error (the spec's
\* BackendQueryError) to its caller.
C14_DeleteOfMissingSloRaises ==
    [][(/\ last'.adapter = "StackdriverServiceMonitoring"
        /\ last'.method = "delete"
        /\ SloNamed(remote, build_slo_id(last'.window, last'.config, TRUE)) = {})
       => last'.outcome.kind = "raise"]_vars

(***************************************************************************)
(* SpecMeasure: the measurement calls of both adapters                     *)
(***************************************************************************)
InitMeasure ==
    /\ EngineIdle
    /\ CliIdle
    /\ AdaptersIdle

NextMeasure ==
    \/ CloudwatchGoodBadRatio
    \/ SsmRetrieveSlo

SpecMeasure == InitMeasure /\ [][NextMeasure]_vars

\* The metric queries among the provider calls of an adapter call.
MetricQueryApis == {"get_metric_data", "list_time_series"}
MetricQueries(calls) ==
    {i \in 1..Len(calls) : calls[i].api \in MetricQueryApis}

\* C15: one adapter measurement call sends its metric query at most once;
\* a call that raises after its query made exactly one attempt, the last of
\* its provider calls; and a metric query the provider fails makes the call
\* raise (CloudWatch good_bad_ratio, Service Monitoring retrieve_slo).
C15_MetricQuerySentOnce ==
    /\ last.adapter # "none"
       => /\ Cardinality(MetricQueries(last.calls)) <= 1
          /\ (last.outcome.kind = "raise" /\ MetricQueries(last.calls) # {})
             => MetricQueries(last.calls) = {Len(last.calls)}
    /\ \A config \in SsmConfigs, window \in SsmWindows, ts \in Timestamps :
          \A ran \in {retrieve_slo(remote, ts, window, config,
                                   {"list_time_series"}, <<>>)} :
             MetricQueries(ran.calls) # {}
             => /\ ran.outcome.kind = "raise"
                /\ Cardinality(MetricQueries(ran.calls)) = 1
    /\ last.adapter = "Cloudwatch"
       => \A answer \in {a \in CloudwatchAnswers : a.raises}, ts \in Timestamps :
             \A done \in {cloudwatch_good_bad_ratio(ts, last.window,
                                                    last.config, answer)} :
                MetricQueries(done.calls) # {}
                => /\ done.outcome.kind = "raise"
                   /\ Cardinality(MetricQueries(done.calls)) = 1

\* A measurement call whose one metric query failed.
C15_Witness ==
    /\ last.adapter # "none"
    /\ last.outcome.kind = "raise"
    /\ Cardinality(MetricQueries(last.calls)) = 1

\* C17: no adapter operation modifies the SLO config it is given: after
\* every call the caller's slo_config mapping, its backend and measurement
\* mappings included, equals the config that was passed.
C17_ConfigIsNotModified ==
    SsmCalled => slo_config = last.config

\* An update_slo call succeeded: it has set the name of the SLO JSON built
\* from the config.
C17_Witness ==
    /\ SsmCalled
    /\ last.method = "update_slo"
    /\ last.outcome.kind = "return"
    /\ slo_config = last.config

\* Two SLO configurations that are the same except for their goal (and name).
SameExceptGoal(slo1, slo2) ==
    WithoutKeys(slo1, {"name", "goal"}) = WithoutKeys(slo2, {"name", "goal"})

\* The SLO JSON get_slo compares with the remote SLOs.
LocalSlos ==
    {convert_slo_to_ssm_format(build_slo(window, config).value) :
       window \in SsmWindows,
       config \in {c \in SsmConfigs : build_slo(3600, c).kind = "return"}}

\* C18: compare_slo returns True for a local and a remote SLO configuration
\* that are the same except for their goal.
C18_CompareSloIgnoresGoal ==
    \A slo1 \in LocalSlos :
       \A slo2 \in {to_json(slo) : slo \in remote.slos} :
          SameExceptGoal(slo1, slo2) => compare_slo(slo1, slo2)

\* The provider calls that create or update the remote SLO or service.
ChangingApis ==
    {"create_service", "create_service_level_objective",
     "update_service_level_objective"}

Changes(calls) == \E i \in 1..Len(calls) : calls[i].api \in ChangingApis

\* C19: a measurement call repeated with the same config, window and
\* timestamp, the provider answering every call and returning the same
\* timeseries, gives the same outcome (the same counts, or the same error)
\* as the first call, also when the first call created or updated the remote
\* service or SLO.
C19_RepeatedCallSameMeasurement ==
    \A config \in SsmConfigs, window \in SsmWindows, ts \in Timestamps,
       timeseries \in SloCounts :
       \A first \in {retrieve_slo(remote, ts, window, config, {}, timeseries)} :
          retrieve_slo(first.remote, ts, window, config, {}, timeseries).outcome
          = first.outcome

\* On a project that already holds SLOs, some first call updates or creates
\* one and returns counts.
C19_Witness ==
    /\ remote.slos # {}
    /\ \E config \in SsmConfigs, window \in SsmWindows, ts \in Timestamps :
          \E first \in {retrieve_slo(remote, ts, window, config, {}, <<>>)} :
             /\ first.outcome.kind = "return"
             /\ Changes(first.calls)

\* The place of each remote call in retrieve_slo.
Rank(api) ==
    CASE api = "list_services" -> 1
      [] api = "create_service" -> 2
      [] api = "list_service_level_objectives" -> 3
      [] api = "update_service_level_objective" -> 4
      [] api = "create_service_level_objective" -> 5
      [] api = "list_time_series" -> 6
      [] OTHER -> 0

Called(calls, api) == \E i \in 1..Len(calls) : calls[i].api = api

\* C20: the remote calls of retrieve_slo come in a fixed order: the service
\* lookup, create_service only when the lookup found no service, the SLO
\* lookup (with its update), create_slo only when the project held no such
\* SLO, then the timeseries query; a call the provider fails is the last
\* call and makes retrieve_slo raise, and the query is made only when every
\* earlier step succeeded.
C20_RemoteCallsInOrder ==
    \A config \in SsmConfigs, window \in SsmWindows, ts \in Timestamps,
       faults \in Faults \cap SUBSET RetrieveApis :
       \A ran \in {retrieve_slo(remote, ts, window, config, faults, <<>>)} :
          LET calls == ran.calls
              n == Len(calls)
          IN  /\ n >= 1 /\ calls[1].api = "list_services"
              /\ \A i, j \in 1..n :
                    i < j => Rank(calls[i].api) < Rank(calls[j].api)
              /\ Called(calls, "create_service")
                 => /\ "list_services" \notin faults
                    /\ ServiceNamed(remote, build_service_id(config, TRUE)) = {}
              /\ Called(calls, "create_service_level_objective")
                 => SloNamed(remote, build_slo_id(window, config, TRUE)) = {}
              /\ \A i \in 1..n :
                    calls[i].api \in faults
                    => i = n /\ ran.outcome.kind = "raise"
              /\ ran.outcome.kind = "return"
                 => calls[n].api = "list_time_series"
              /\ (ran.outcome.kind = "raise" /\ Called(calls, "list_time_series"))
                 => "list_time_series" \in faults

\* A retrieve_slo call that made all five steps: both lookups, both
\* creations and the query.
C20_Witness ==
    /\ SsmCalled
    /\ last.outcome.kind = "return"
    /\ Len(last.calls) = 5
    /\ Called(last.calls, "create_service")
    /\ Called(last.calls, "create_service_level_objective")

\* The provider calls of `calls` that write to the project.
Writes(calls) == {i \in 1..Len(calls) : calls[i].api \in ChangingApis}

\* C21: get_slo, for a config whose local SLO JSON can be built and a
\* provider that answers, has three outcomes: the remote SLO with the local
\* id is returned and nothing is written when its configuration equals the
\* local one; exactly one update is sent and its response returned when it
\* differs; None is returned and nothing is written when no remote SLO has
\* the local id. No retrieve_slo call makes both an update_slo and a
\* create_slo call.
C21_GetSloOutcomes ==
    /\ \A config \in SsmConfigs, window \in SsmWindows :
          (/\ build_slo(window, config).kind = "return"
           /\ ServiceNamed(remote, build_service_id(config, TRUE)) # {})
          => \A got \in {get_slo(remote, window, config, {})} :
                LET slo_id == build_slo_id(window, config, TRUE)
                    local ==
                        convert_slo_to_ssm_format(build_slo(window, config).value)
                    same_id == {to_json(slo) : slo \in SloNamed(remote, slo_id)}
                IN  /\ same_id = {}
                       => /\ got.outcome = Returns(NoneValue)
                          /\ Writes(got.calls) = {}
                          /\ got.remote = remote
                    /\ \A slo \in same_id :
                          IF WithoutKeys(local, {"name"}) = WithoutKeys(slo, {"name"})
                          THEN /\ got.outcome = Returns(DictValue(slo))
                               /\ Writes(got.calls) = {}
                               /\ got.remote = remote
                          ELSE /\ Cardinality(Writes(got.calls)) = 1
                               /\ \A i \in Writes(got.calls) :
                                     got.calls[i] =
                                       ApiCall("update_service_level_objective",
                                               slo_id)
                               /\ \A stored \in SloNamed(got.remote, slo_id) :
                                     got.outcome = Returns(DictValue(to_json(stored)))
                               /\ got.outcome.kind = "return"
    /\ SsmCalled
       => ~(/\ Called(last.calls, "update_service_level_objective")
            /\ Called(last.calls, "create_service_level_objective"))

\* A retrieve_slo call found the SLO with another configuration, updated it
\* and returned its counts.
C21_Witness ==
    /\ SsmCalled
    /\ last.method = "good_bad_ratio"
    /\ last.outcome.kind = "return"
    /\ Called(last.calls, "update_service_level_objective")
    /\ Called(last.calls, "list_time_series")

(***************************************************************************)
(* SpecDistributionCut: calls of the distribution_cut method               *)
(***************************************************************************)
\* Measurements of method 'distribution_cut': with and without the optional
\* filter_valid and range_min, and without the required range_max.
DistributionCutBackends ==
    {SsmBackend("distribution_cut",
                [filter_valid |-> "valid_filter", range_max |-> 5]),
     SsmBackend("distribution_cut", [range_max |-> 5]),
     SsmBackend("distribution_cut", [range_min |-> 1, range_max |-> 5]),
     SsmBackend("distribution_cut", [range_min |-> 1])}

DistributionCutConfigs ==
    {SsmConfig("slo", <<9, 10>>, backend) : backend \in DistributionCutBackends}

InitDistributionCut ==
    /\ EngineIdle
    /\ CliIdle
    /\ AdaptersIdle

\* distribution_cut
SsmDistributionCut ==
    /\ \E config \in DistributionCutConfigs, window \in SsmWindows,
          ts \in Timestamps, faults \in Faults \cap SUBSET RetrieveApis :
          \E timeseries \in IF faults = {} THEN SloCounts ELSE {<<>>} :
          \E ran \in {retrieve_slo(remote, ts, window, config, faults,
                                    timeseries)} :
              /\ remote' = ran.remote
              /\ slo_config' = retrieve_slo_config(window, config)
              /\ last' = Call("StackdriverServiceMonitoring",
                              "distribution_cut", config, window, ran.outcome,
                              ran.calls)
    /\ UNCHANGED <<engineRest, cliVars>>

NextDistributionCut == SsmDistributionCut

SpecDistributionCut == InitDistributionCut /\ [][NextDistributionCut]_vars

\* C22: after one successful retrieve_slo for a config and window, the
\* provider storing what was written to it, a later retrieve_slo with the
\* same config and window sends no create_service, no create_slo and no
\* update_slo call and leaves the remote state as it is.
C22_RepeatSendsNoWrite ==
    \A config \in DistributionCutConfigs, window \in SsmWindows,
       ts \in Timestamps :
       \A first \in {retrieve_slo(remote, ts, window, config, {}, <<>>)} :
          first.outcome.kind = "return"
          => \A again \in {retrieve_slo(first.remote, ts, window, config, {},
                                        <<>>)} :
                /\ Writes(again.calls) = {}
                /\ again.remote = first.remote

\* C23: a retrieve_slo call that fails because the config's backend.method
\* is not supported (the Exception of build_service or of build_slo) leaves
\* the remote state unchanged: it has sent no call that creates or updates a
\* service or an SLO, whether or not the service existed.
C23_UnsupportedMethodChangesNothing ==
    \A config \in SsmConfigs, window \in SsmWindows, ts \in Timestamps :
       \A ran \in {retrieve_slo(remote, ts, window, config, {}, <<>>)} :
          ran.outcome = Raises("Exception")
          => /\ ran.remote = remote
             /\ Writes(ran.calls) = {}

(***************************************************************************)
(* SpecCount: StackdriverServiceMonitoringBackend.count on a response      *)
(***************************************************************************)
\* The points of a timeseries of a response: the API returns a timeseries
\* with the points it has, at least one.
SeriesPoints == {<<v>> : v \in 0..MaxCount} \cup {<<MaxCount, 0>>}

\* The timeseries of a response: labelled good, bad, or something else.
ResponseSeries ==
    {TimeSeries(e, points) : e \in {"good", "bad", "other"},
                             points \in SeriesPoints}

\* list(timeseries): the responses of at most MaxSeries timeseries.
Responses ==
    UNION {[1..n -> ResponseSeries] : n \in 0..MaxSeries}

\* A response is at hand, count has not run.
InitCount ==
    /\ EngineIdle
    /\ CliIdle
    /\ remote = NoRemote
    /\ \E timeseries \in Responses :
          last = [adapter |-> "none", timeseries |-> timeseries]

\* count(timeseries)
SsmCount ==
    /\ last.adapter = "none"
    /\ \E counts \in {count(last.timeseries)} :
          last' = [adapter |-> "StackdriverServiceMonitoring",
                   method |-> "count", timeseries |-> last.timeseries,
                   outcome |-> Returns(TupleValue(counts[1], counts[2]))]
    /\ UNCHANGED <<engineVars, cliVars, remote>>

NextCount == SsmCount

SpecCount == InitCount /\ [][NextCount]_vars

\* The first point's value of the last timeseries labelled event_type, or 0.
LastOf(timeseries, event_type) ==
    LET labelled == {i \in 1..Len(timeseries) :
                       timeseries[i].event_type = event_type}
    IN  IF labelled = {} THEN 0
        ELSE timeseries[CHOOSE i \in labelled : \A j \in labelled : j <= i].points[1]

GoodOrBad(timeserie) == timeserie.event_type \in {"good", "bad"}

\* C24: count(timeseries) returns (g, b), g the first point's value of the
\* last timeseries labelled 'good' (0 if there is none) and b the same for
\* 'bad'; the timeseries of any other event_type do not change the result,
\* and an empty list gives (0, 0).
C24_CountIsLastGoodAndBad ==
    last.adapter # "none"
    => /\ last.outcome =
             Returns(TupleValue(LastOf(last.timeseries, "good"),
                                LastOf(last.timeseries, "bad")))
       /\ count(SelectSeq(last.timeseries, GoodOrBad))
             = <<last.outcome.value.good, last.outcome.value.bad>>
       /\ last.timeseries = <<>> => last.outcome = Returns(TupleValue(0, 0))

\* count has run on a response with two 'good' timeseries of different
\* values, one of them with two points, and a timeseries of another type.
C24_Witness ==
    /\ last.adapter # "none"
    /\ last.timeseries = <<TimeSeries("good", <<1>>),
                           TimeSeries("other", <<MaxCount>>),
                           TimeSeries("good", <<MaxCount, 0>>)>>
    /\ last.outcome = Returns(TupleValue(MaxCount, 0))

\* The adapter methods that run retrieve_slo.
RetrieveMethods == SsmMethods \cup {"retrieve_slo"}

\* C25: retrieve_slo creates a missing service only as a custom service.
\* With the provider answering the service calls: for method 'basic' and a
\* missing service the call raises and sends no call that creates a service
\* or an SLO and no timeseries query; for every other method a missing
\* service is created with an empty 'custom' definition; a service that
\* exists is not created again.
C25_MissingServiceCreatedAsCustom ==
    [][(/\ last'.adapter = "StackdriverServiceMonitoring"
        /\ last'.method \in RetrieveMethods)
       => LET config == last'.config
              calls == last'.calls
              name == build_service_id(config, TRUE)
              missing == ServiceNamed(remote, name) = {}
              failed == /\ last'.outcome = Raises("GoogleAPIError")
                        /\ calls[Len(calls)].api
                              \in {"list_services", "create_service"}
          IN  /\ (missing /\ ~failed /\ config.backend.method = "basic")
                 => /\ last'.outcome.kind = "raise"
                    /\ remote' = remote
                    /\ Writes(calls) = {}
                    /\ ~Called(calls, "list_time_series")
              /\ (missing /\ ~failed /\ config.backend.method # "basic")
                 => /\ Called(calls, "create_service")
                    /\ ServiceNamed(remote', name) =
                          {[name |-> name,
                            display_name |-> build_service_id(config, FALSE),
                            custom |-> EmptyDict]}
              /\ ~missing
                 => /\ ~Called(calls, "create_service")
                    /\ remote'.services = remote.services]_vars

\* A call of method 'basic' found no service and raised after the lookup,
\* and a custom service created by another call is on the project.
C25_Witness ==
    /\ SsmCalled
    /\ last.method = "basic"
    /\ last.outcome = Raises("Exception")
    /\ Len(last.calls) = 1
    /\ \E service \in remote.services : service.custom = EmptyDict

(***************************************************************************)
(* SpecGmon: gmon's MetricsClient.delete_unused on a project's metrics     *)
(***************************************************************************)
\* The metric types of the project, in the order the API lists them.
MetricTypes == <<"custom.googleapis.com/a", "custom.googleapis.com/b",
                 "other.googleapis.com/c">>

\* A metric descriptor on the provider, and whether datapoints were written
\* to the metric during the window.
MetricDescriptor(type, written) == [type |-> type, written |-> written]

\* The projects: each metric type is absent, unused or written to.
GmonProjects ==
    {[metrics |-> {MetricDescriptor(MetricTypes[i], w[i]) : i \in {j \in 1..3 : p[j]}}] :
        p \in [1..3 -> BOOLEAN], w \in [1..3 -> BOOLEAN]}

\* pattern: None, or a regex, given by the metric types re.search finds it in.
NoPattern == [none |-> TRUE, found_in |-> {}]
Pattern(found_in) == [none |-> FALSE, found_in |-> found_in]
Patterns ==
    {NoPattern,
     Pattern({MetricTypes[1], MetricTypes[2]}),
     Pattern({MetricTypes[3]})}

\* What the user types at the prompt.
Answers == {"y", "Y", "yes", "YES", "n", "no", ""}

\* str.lower
lower(ix) ==
    CASE ix = "Y" -> "y"
      [] ix = "YES" -> "yes"
      [] OTHER -> ix

\* list: the descriptors of the project, those the pattern is found in.
list(project, pattern) ==
    LET types == SelectSeq(MetricTypes,
                     LAMBDA t : \E m \in project.metrics : m.type = t)
        kept == SelectSeq(types,
                    LAMBDA t : pattern.none \/ t \in pattern.found_in)
    IN  Done(Returns(kept), <<ApiCall("list_metric_descriptors", "project")>>)

\* inspect: the metric's timeseries of the window, as a count of them.
inspect(project, metric_type) ==
    LET written == \E m \in project.metrics : m.type = metric_type /\ m.written
    IN  Done(Returns(IF written THEN 1 ELSE 0),
             <<ApiCall("get_metric_descriptor", metric_type),
               ApiCall("list_time_series", metric_type)>>)

\* delete_unused: the loop over the descriptors; acc holds delete_list and
\* the provider calls made so far.
RECURSIVE InspectLoop(_, _, _)
InspectLoop(project, descriptors, acc) ==
    IF descriptors = <<>> THEN acc
    ELSE LET metric_type == Head(descriptors)
             results == inspect(project, metric_type)
         IN  InspectLoop(project, Tail(descriptors),
                 [delete_list |->
                      IF results.outcome.value = 0
                      THEN Append(acc.delete_list, metric_type)
                      ELSE acc.delete_list,
                  calls |-> acc.calls \o results.calls])

\* delete_unused. On 'y' or 'yes' the loop header calls delete_list.items()
\* on a list, which raises AttributeError before the first delete.
delete_unused(project, pattern, interactive, ix) ==
    LET descriptors == list(project, pattern)
        looped == InspectLoop(project, descriptors.outcome.value,
                              [delete_list |-> <<>>, calls |-> descriptors.calls])
    IN  IF looped.delete_list = <<>>
        THEN Done(Returns(NoneValue), looped.calls)
        ELSE IF interactive /\ lower(ix) \in {"y", "yes"}
        THEN Done(Raises("AttributeError"), looped.calls)
        ELSE Done(Returns(NoneValue), looped.calls)

InitGmon ==
    /\ EngineIdle
    /\ CliIdle
    /\ last = NoCall
    /\ remote \in GmonProjects

\* delete_unused(pattern, window, interactive)
GmonDeleteUnused ==
    /\ \E pattern \in Patterns, interactive \in BOOLEAN, ix \in Answers :
          \E done \in {delete_unused(remote, pattern, interactive, ix)} :
             last' = [adapter |-> "MetricsClient", method |-> "delete_unused",
                      pattern |-> pattern, interactive |-> interactive,
                      answer |-> IF interactive THEN ix ELSE "",
                      outcome |-> done.outcome, calls |-> done.calls]
    /\ UNCHANGED <<engineVars, cliVars, remote>>

NextGmon == GmonDeleteUnused

SpecGmon == InitGmon /\ [][NextGmon]_vars

\* The metrics of the project that the pattern selects, unused or not.
Selected(project, pattern, written) ==
    {m.type : m \in {x \in project.metrics :
                        /\ x.written = written
                        /\ pattern.none \/ x.type \in pattern.found_in}}

\* The metric types for which delete_metric_descriptor was called.
DeleteCalls(calls) ==
    {i \in 1..Len(calls) : calls[i].api = "delete_metric_descriptor"}

\* C26: delete_unused, when some metric the pattern selects has no
\* datapoint in the window and the user answers 'y' or 'yes', calls
\* delete_metric_descriptor once for each such metric and for no metric
\* that has datapoints; when the user declines, it makes no delete call.
C26_DeleteUnusedDeletes ==
    (/\ last.adapter = "MetricsClient"
     /\ last.interactive)
    => LET unused == Selected(remote, last.pattern, FALSE)
           confirmed == lower(last.answer) \in {"y", "yes"}
       IN  /\ (unused # {} /\ confirmed)
              => /\ \A type \in unused :
                       Cardinality({i \in DeleteCalls(last.calls) :
                                      last.calls[i].name = type}) = 1
                 /\ \A i \in DeleteCalls(last.calls) :
                       last.calls[i].name \in unused
           /\ ~confirmed => DeleteCalls(last.calls) = {}

====
